---- MODULE Spec2Model ----
(***************************************************************************)
(* The request-forwarding-and-metrics pipeline of ollama-proxy:            *)
(* the tracking middleware, GET /health, OllamaProxy.proxyRequest and      *)
(* CSVLogger.log, as a state machine over the requests in flight.          *)
(*                                                                         *)
(* Node runs one callback at a time: a handler runs from its entry to its  *)
(* first await, and from the completion of the awaited call to its end,    *)
(* without any other request's code in between.  Each such run is one      *)
(* action here.                                                            *)
(***************************************************************************)
EXTENDS Integers, Sequences, FiniteSets, TLC

\* Number of inbound requests of a run.
NumReq == 2

Req == 1..NumReq

-----------------------------------------------------------------------------
(* JavaScript values.  A scalar is a record: t its type, n its number,     *)
(* s its text, q how many quote characters stand for each quote character  *)
(* of the original text (1: as written).                                   *)

Undefined == [t |-> "undefined", n |-> 0, s |-> "", q |-> 1]

Null == [t |-> "null", n |-> 0, s |-> "", q |-> 1]

Num(k) == [t |-> "number", n |-> k, s |-> "", q |-> 1]

Str(x) == [t |-> "string", n |-> 0, s |-> x, q |-> 1]

Bool(b) == [t |-> "boolean", n |-> IF b THEN 1 ELSE 0, s |-> "", q |-> 1]

\* An object (here: the model_parameters mapping) is a function from its keys.
IsScalar(v) == "t" \in DOMAIN v

\* ToBoolean: undefined, null, 0, "" and false are falsy; objects are truthy.
Truthy(v) ==
    IF ~IsScalar(v) THEN TRUE
    ELSE CASE v.t = "undefined" -> FALSE
           [] v.t = "null"      -> FALSE
           [] v.t = "number"    -> v.n # 0
           [] v.t = "string"    -> ~(v.s = "" /\ v.n = 0 /\ "json" \notin DOMAIN v)
           [] v.t = "boolean"   -> v.n = 1
           [] OTHER             -> TRUE

\* a || b
JsOr(a, b) == IF Truthy(a) THEN a ELSE b

\* a + b on numbers
JsAdd(a, b) == Num(a.n + b.n)

\* String(v) of a scalar: the decimal text of a number is the string that
\* keeps the number in n and has s = "#".
JsString(v) ==
    CASE v.t = "number"  -> [t |-> "string", n |-> v.n, s |-> "#", q |-> 1]
      [] v.t = "boolean" -> Str(IF v.n = 1 THEN "true" ELSE "false")
      [] OTHER           -> v

\* JSON.stringify(o) of an object: a text that contains quote characters.
JsonStringify(o) == [t |-> "string", n |-> 0, s |-> "", q |-> 1, json |-> o]

ContainsQuote(str) == "json" \in DOMAIN str

\* str.replace(/"/g, '""')
DoubleQuotes(str) == IF ContainsQuote(str) THEN [str EXCEPT !.q = 2 * @] ELSE str

-----------------------------------------------------------------------------
(* Request bodies, as express.json() leaves them in req.body.              *)

ParamKeys == {"temperature", "top_p", "top_k", "max_tokens", "num_predict", "repeat_penalty"}

EmptyBody ==
    [model |-> Undefined, prompt |-> Undefined, stream |-> Undefined,
     temperature |-> Undefined, top_p |-> Undefined, top_k |-> Undefined,
     max_tokens |-> Undefined, num_predict |-> Undefined,
     repeat_penalty |-> Undefined, json_length |-> 2]

GenerateBody ==
    [EmptyBody EXCEPT !.model = Str("llama2"), !.prompt = Str("hi"),
                      !.stream = Bool(FALSE), !.top_k = Num(40),
                      !.json_length = 58]

\* Inbound requests: method, path, body and the headers the code reads.
HealthReq ==
    [method |-> "GET", path |-> "/health", body |-> EmptyBody,
     ip |-> Str("127.0.0.1"), user_agent |-> Str("curl"), x_session_id |-> Undefined]

GenerateReq ==
    [method |-> "POST", path |-> "/api/generate", body |-> GenerateBody,
     ip |-> Str("127.0.0.1"), user_agent |-> Str("curl"), x_session_id |-> Str("s1")]

TagsReq ==
    [method |-> "GET", path |-> "/api/tags", body |-> EmptyBody,
     ip |-> Str("127.0.0.1"), user_agent |-> Undefined, x_session_id |-> Undefined]

NoReq ==
    [method |-> "", path |-> "", body |-> EmptyBody,
     ip |-> Undefined, user_agent |-> Undefined, x_session_id |-> Undefined]

ForwardedReqs == {GenerateReq, TagsReq}

-----------------------------------------------------------------------------
(* Upstream response bodies (response.data), by the fields the code reads. *)

EmptyData ==
    [model |-> Undefined, message_model |-> Undefined,
     prompt_eval_count |-> Undefined, eval_count |-> Undefined,
     usage_prompt_tokens |-> Undefined, usage_completion_tokens |-> Undefined,
     error |-> Undefined, json_length |-> 2]

GenerateReply ==
    [EmptyData EXCEPT !.model = Str("llama2"), !.prompt_eval_count = Num(3),
                      !.eval_count = Num(2), !.json_length = 74]

NotFoundReply ==
    [EmptyData EXCEPT !.error = Str("model not found"), !.json_length = 27]

InternalErrorReply ==
    [EmptyData EXCEPT !.error = Str("internal error"), !.json_length = 26]

\* What the upstream can answer: a status and a body.
UpstreamReplies ==
    { [status |-> 200, data |-> GenerateReply],
      [status |-> 404, data |-> NotFoundReply],
      [status |-> 500, data |-> InternalErrorReply] }

\* Transport failures: the message of the error axios rejects with.
TransportErrors == {"connect ECONNREFUSED"}

-----------------------------------------------------------------------------
(* State.                                                                  *)

VARIABLES
    concurrentRequests, \* OllamaProxy.concurrentRequests
    req,                \* req[i]: the i-th inbound request (NoReq: not arrived)
    pc,                 \* where request i is: "new", "awaiting", "sent", "finished"
    logData,            \* proxyRequest's logData of request i
    upstream,           \* what the upstream call of request i ended with
    clientResp,         \* the response handed to the client of request i
    sends,              \* how many responses were sent for request i
    rejected,           \* whether proxyRequest's promise of request i was rejected
    timers,             \* req.startTime, queueStartTime, processingStartTime of request i
    logFile,            \* the lines of ollama-proxy.csv, the header first (<<>>: no file)
    now,                \* Date.now()
    loggers,            \* how many CSVLogger objects have been constructed
    events,             \* what has happened to request i, in order
    extraction          \* a call of the metric extractors: arguments and result

vars == <<concurrentRequests, req, pc, logData, upstream, clientResp, sends,
          rejected, timers, logFile, now, loggers, events, extraction>>

Columns ==
    <<"timestamp", "request_id", "ip_source", "user_agent", "http_method",
      "endpoint", "model", "input_tokens", "output_tokens", "total_tokens",
      "request_size_bytes", "response_size_bytes", "queue_time_ms",
      "processing_time_ms", "total_time_ms", "http_status", "error_message",
      "model_parameters", "stream_mode", "system_load_cpu",
      "system_load_memory", "concurrent_requests", "session_id">>

ColumnNames == {Columns[k] : k \in 1..Len(Columns)}

\* The header line initializeLogFile writes into a new file.
Header == [c \in ColumnNames |-> Str(c)]

\* A fresh logData object: every property undefined.
NoLogData == [c \in ColumnNames \ {"timestamp"} |-> Undefined]

NoOutcome == [kind |-> "none"]

NoResp == [status |-> 0]

NoTimers == [startTime |-> 0, queueStartTime |-> 0, processingStartTime |-> 0]

\* No call of the extractors is under way.
NoExtraction ==
    [body |-> Undefined, data |-> Undefined, done |-> FALSE,
     model |-> Undefined, input_tokens |-> Undefined, output_tokens |-> Undefined,
     model_parameters |-> Undefined]

\* uuidv4(): one identifier per request, never repeated.
Uuid(i) == [t |-> "string", n |-> i, s |-> "uuid", q |-> 1]

Init ==
    /\ concurrentRequests = 0
    /\ req = [i \in Req |-> NoReq]
    /\ pc = [i \in Req |-> "new"]
    /\ logData = [i \in Req |-> NoLogData]
    /\ upstream = [i \in Req |-> NoOutcome]
    /\ clientResp = [i \in Req |-> NoResp]
    /\ sends = [i \in Req |-> 0]
    /\ rejected = [i \in Req |-> FALSE]
    /\ timers = [i \in Req |-> NoTimers]
    /\ logFile = <<Header>>
    /\ now = 0
    /\ loggers = 1
    /\ events = [i \in Req |-> <<>>]
    /\ extraction = NoExtraction

-----------------------------------------------------------------------------
(* The metric extractors of OllamaProxy.                                   *)

\* obj?.key: undefined when obj is undefined or null (or has no such key).
Opt(obj, key) == IF IsScalar(obj) THEN Undefined ELSE obj[key]

extractModel(requestBody, responseData) ==
    JsOr(JsOr(JsOr(Opt(requestBody, "model"), Opt(responseData, "model")),
              Opt(responseData, "message_model")),
         Str("unknown"))

extractInputTokens(responseData) ==
    JsOr(JsOr(Opt(responseData, "prompt_eval_count"),
              Opt(responseData, "usage_prompt_tokens")),
         Num(0))

extractOutputTokens(responseData) ==
    JsOr(JsOr(Opt(responseData, "eval_count"),
              Opt(responseData, "usage_completion_tokens")),
         Num(0))

\* extractModelParameters, had it tested requestBody[key] for truth.
extractModelParameters_TruthyOnly(requestBody) ==
    IF ~Truthy(requestBody) THEN Null
    ELSE LET present == {k \in ParamKeys : Truthy(requestBody[k])}
         IN  IF present = {} THEN Null ELSE [k \in present |-> requestBody[k]]

\* The whitelisted keys the body has, with the body's values; null when the
\* body is absent or has none of them.
extractModelParameters(requestBody) ==
    IF ~Truthy(requestBody) THEN Null
    ELSE LET present == {k \in ParamKeys : requestBody[k] # Undefined}
         IN  IF present = {} THEN Null ELSE [k \in present |-> requestBody[k]]

\* CSVLogger.getSystemLoad(): process.cpuUsage() and the memory percentage.
getSystemLoad == [cpu |-> [user |-> Num(1000)], memory |-> Num(50)]

-----------------------------------------------------------------------------
(* CSVLogger.                                                              *)

formatValue(value) ==
    IF ~IsScalar(value) THEN DoubleQuotes(JsonStringify(value))
    ELSE IF value.t \in {"null", "undefined"} THEN Str("")
    ELSE DoubleQuotes(JsString(value))

\* The row array of log(data), by column.
rowArray(data, at) ==
    [c \in ColumnNames |->
       CASE c = "timestamp" -> [t |-> "string", n |-> at, s |-> "iso", q |-> 1]
         [] c \in {"request_id", "ip_source", "user_agent", "http_method",
                   "endpoint", "model", "http_status", "error_message",
                   "session_id"} -> JsOr(data[c], Str(""))
         [] c = "model_parameters" -> formatValue(data[c])
         [] c = "stream_mode" -> JsOr(data[c], Bool(FALSE))
         [] OTHER -> JsOr(data[c], Num(0))]

\* log, had the session_id element been left out of the row array.
log_MissingColumn(data, at) ==
    [c \in ColumnNames \ {"session_id"} |-> formatValue(rowArray(data, at)[c])]

\* The line log(data) appends: the row array, every element passed through
\* formatValue and written between double quotes.
log(data, at) ==
    [c \in ColumnNames |-> formatValue(rowArray(data, at)[c])]

-----------------------------------------------------------------------------
(* OllamaProxy.proxyRequest, in the pieces the actions are made of.        *)

\* logData as built before the try block.
InitialLogData(i, r, concurrent) ==
    [NoLogData EXCEPT
        !.request_id = Uuid(i),
        !.ip_source = r.ip,
        !.user_agent = r.user_agent,
        !.http_method = Str(r.method),
        !.endpoint = Str(r.path),
        !.session_id = JsOr(r.x_session_id, r.ip),
        !.concurrent_requests = Num(concurrent),
        !.request_size_bytes = Num(r.body.json_length)]

\* validateStatus as axios has it when the configuration gives none.
validateStatus_Default(status) == status >= 200 /\ status < 300

\* validateStatus of ollamaConfig: every status resolves the axios promise.
validateStatus(status) == TRUE

\* await axios(ollamaConfig) when the upstream answered: resolved with the
\* response, or rejected with an error that carries it.
AxiosSettle(reply) ==
    IF validateStatus(reply.status)
    THEN [kind |-> "response", status |-> reply.status, data |-> reply.data]
    ELSE [kind |-> "error", message |-> Str("Request failed with status code"),
          response_status |-> Num(reply.status)]

\* await axios(ollamaConfig) when the transport failed: rejected, no response.
AxiosFail(message) ==
    [kind |-> "error", message |-> Str(message), response_status |-> Undefined]

\* totalTokens, had it counted the prompt only.
totalTokens_InputOnly(inTok, outTok) == JsOr(inTok, Num(0))

\* (logData.input_tokens || 0) + (logData.output_tokens || 0)
totalTokens(inTok, outTok) == JsAdd(JsOr(inTok, Num(0)), JsOr(outTok, Num(0)))

\* The try block after the await: the metrics of a response.
SuccessLogData(ld, r, tm, response, at) ==
    LET inTok  == extractInputTokens(response.data)
        outTok == extractOutputTokens(response.data)
    IN  [ld EXCEPT
            !.model = extractModel(r.body, response.data),
            !.input_tokens = inTok,
            !.output_tokens = outTok,
            !.total_tokens = totalTokens(inTok, outTok),
            !.model_parameters = extractModelParameters(r.body),
            !.stream_mode = JsOr(r.body.stream, Bool(FALSE)),
            !.response_size_bytes = Num(response.data.json_length),
            !.http_status = Num(response.status),
            !.queue_time_ms = Num(tm.processingStartTime - tm.queueStartTime),
            !.processing_time_ms = Num(at - tm.processingStartTime),
            !.total_time_ms = Num(at - tm.startTime),
            !.system_load_cpu = getSystemLoad.cpu.user,
            !.system_load_memory = getSystemLoad.memory]

\* CatchLogData, had it left the message out.
CatchLogData_NoMessage(ld, tm, error, at) ==
    [ld EXCEPT
        !.http_status = JsOr(error.response_status, Num(500)),
        !.total_time_ms = Num(at - tm.startTime)]

\* The catch block: what it records of the error.
CatchLogData(ld, tm, error, at) ==
    [ld EXCEPT
        !.error_message = error.message,
        !.http_status = JsOr(error.response_status, Num(500)),
        !.total_time_ms = Num(at - tm.startTime)]

\* res.status(response.status); res.send(responseData).  The body is
\* response.data, the value axios parsed; the relayed headers are left out.
RelayedResponse(response) == [status |-> response.status, body |-> response.data]

\* res.status(logData.http_status).json(errorResponse)
ErrorResponse(i, ld, error) ==
    [status |-> ld.http_status.n,
     body |-> [error |-> Str("Proxy error"), message |-> error.message,
               request_id |-> Uuid(i)]]

\* TryCatch, had the catch block only recorded the error.
TryCatch_SilentCatch(i, ld, r, tm, settled, at) ==
    IF settled.kind = "response"
    THEN [logData |-> SuccessLogData(ld, r, tm, settled, at),
          resp |-> RelayedResponse(settled),
          sent |-> 1]
    ELSE [logData |-> CatchLogData(ld, tm, settled, at), resp |-> NoResp, sent |-> 0]

\* The try and catch blocks after the await: the metrics recorded, the
\* response sent to the client and how many times a response was sent.
TryCatch(i, ld, r, tm, settled, at) ==
    IF settled.kind = "response"
    THEN [logData |-> SuccessLogData(ld, r, tm, settled, at),
          resp |-> RelayedResponse(settled),
          sent |-> 1]
    ELSE LET ld1 == CatchLogData(ld, tm, settled, at)
         IN  [logData |-> ld1,
              resp |-> ErrorResponse(i, ld1, settled),
              sent |-> 1]

\* appendFileSync, had the line been put right under the header.
appendFileSync_UnderHeader(file, line) == <<Head(file), line>> \o Tail(file)

\* fs.appendFileSync(this.logFile, line): the line goes to the end of the file.
appendFileSync(file, line) == Append(file, line)

\* Finally, had the append been written at the end of the try block only.
Finally_OnlyAfterTry(ld, file, at, appendOk) ==
    [file |-> IF appendOk /\ ld.error_message = Undefined
              THEN appendFileSync(file, log(ld, at)) ELSE file,
     threw |-> ~appendOk]

\* The finally block: this.logger.log(logData).  fs.appendFileSync either
\* appends the line or throws; nothing catches what it throws.
Finally(ld, file, at, appendOk) ==
    [file |-> IF appendOk THEN appendFileSync(file, log(ld, at)) ELSE file,
     threw |-> ~appendOk]

\* ResumeEvents, had the row been appended before the response was sent.
ResumeEvents_LogFirst(sent, logged) ==
    (IF logged THEN <<"logged">> ELSE <<>>) \o (IF sent THEN <<"sent">> ELSE <<>>)

\* The order of proxyRequest after its await: res.send or res.json in the try
\* or catch block, then this.logger.log in the finally block.
ResumeEvents(sent, logged) ==
    (IF sent THEN <<"sent">> ELSE <<>>) \o (IF logged THEN <<"logged">> ELSE <<>>)

\* Delivered, had the response been sent after the append.
Delivered_AfterLog(resp, appendOk) == IF appendOk THEN resp ELSE NoResp

\* res.send and res.json run in the try and catch blocks, before the finally
\* block: the client has its response whatever the append does.
Delivered(resp, appendOk) == resp

-----------------------------------------------------------------------------
(* The tracking middleware and the routes.                                 *)

\* Increment, had the middleware not counted the request.
Increment_Missing(c) == c

\* Increment, had two requests read the counter before either wrote it: the
\* second write puts back the value the first one wrote.
Increment_LostUpdate(c) == IF c = 0 THEN c + 1 ELSE c

\* this.concurrentRequests++
Increment(c) == c + 1

\* Decrement, had the 'finish' listener been left out.
Decrement_Missing(c) == c

\* this.concurrentRequests-- of the 'finish' listener
Decrement(c) == c - 1

\* app.get('/health') comes first; every other request reaches proxyRequest.
Route(r) == IF r.method = "GET" /\ r.path = "/health" THEN "health" ELSE "proxy"

ollamaBaseUrl == Str("http://localhost:11434")

\* The body GET /health answers with.
HealthBody(concurrent) ==
    [status |-> Str("healthy"), ollama_url |-> ollamaBaseUrl,
     concurrent_requests |-> Num(concurrent)]

\* Requests are numbered in the order they arrive.
NextToArrive(i) == pc[i] = "new" /\ \A j \in Req : j < i => pc[j] # "new"

\* A GET /health arrives: the middleware, then the handler, which answers.
healthHandler(i, r) ==
    /\ NextToArrive(i)
    /\ Route(r) = "health"
    /\ concurrentRequests' = Increment(concurrentRequests)
    /\ req' = [req EXCEPT ![i] = r]
    /\ timers' = [timers EXCEPT ![i].startTime = now]
    /\ clientResp' = [clientResp EXCEPT
                        ![i] = [status |-> 200, body |-> HealthBody(concurrentRequests')]]
    /\ sends' = [sends EXCEPT ![i] = @ + 1]
    /\ pc' = [pc EXCEPT ![i] = "sent"]
    /\ events' = [events EXCEPT ![i] = <<"sent">>]
    /\ UNCHANGED <<logData, upstream, rejected, logFile, now, loggers, extraction>>

\* Any other request arrives: the middleware, then proxyRequest up to its
\* await of the upstream call.
proxyRequestBegin(i, r) ==
    /\ NextToArrive(i)
    /\ Route(r) = "proxy"
    /\ concurrentRequests' = Increment(concurrentRequests)
    /\ req' = [req EXCEPT ![i] = r]
    /\ timers' = [timers EXCEPT ![i] = [startTime |-> now, queueStartTime |-> now,
                                        processingStartTime |-> now]]
    /\ logData' = [logData EXCEPT ![i] = InitialLogData(i, r, concurrentRequests')]
    /\ pc' = [pc EXCEPT ![i] = "awaiting"]
    /\ UNCHANGED <<upstream, clientResp, sends, rejected, logFile, now, loggers,
                   events, extraction>>

\* proxyRequest from the end of its await to its end.
proxyRequestResume(i, settled, appendOk) ==
    LET tc  == TryCatch(i, logData[i], req[i], timers[i], settled, now)
        fin == Finally(tc.logData, logFile, now, appendOk)
        got == Delivered(tc.resp, appendOk)
    IN  /\ logData' = [logData EXCEPT ![i] = tc.logData]
        /\ clientResp' = [clientResp EXCEPT ![i] = got]
        /\ sends' = [sends EXCEPT ![i] = @ + (IF got = NoResp THEN 0 ELSE tc.sent)]
        /\ logFile' = fin.file
        /\ rejected' = [rejected EXCEPT ![i] = fin.threw]
        /\ pc' = [pc EXCEPT ![i] = "sent"]
        /\ events' = [events EXCEPT
                        ![i] = ResumeEvents(got # NoResp, fin.file # logFile)]
        /\ UNCHANGED <<concurrentRequests, req, timers, now, loggers, extraction>>

\* The upstream answers request i with a status and a body.
UpstreamAnswers(i, reply, appendOk) ==
    /\ pc[i] = "awaiting"
    /\ upstream' = [upstream EXCEPT
                      ![i] = [kind |-> "reply", status |-> reply.status, data |-> reply.data]]
    /\ proxyRequestResume(i, AxiosSettle(reply), appendOk)

\* The upstream call of request i fails: refused, timed out.
UpstreamFails(i, message, appendOk) ==
    /\ pc[i] = "awaiting"
    /\ upstream' = [upstream EXCEPT ![i] = [kind |-> "failure", message |-> message]]
    /\ proxyRequestResume(i, AxiosFail(message), appendOk)

\* The response of request i has been handed over: 'finish'.
resFinish(i) ==
    /\ pc[i] = "sent"
    /\ pc' = [pc EXCEPT ![i] = "finished"]
    /\ concurrentRequests' = Decrement(concurrentRequests)
    /\ events' = [events EXCEPT ![i] = Append(@, "decremented")]
    /\ UNCHANGED <<req, logData, upstream, clientResp, sends, rejected, timers,
                   logFile, now, loggers, extraction>>

Inbound == {HealthReq} \cup ForwardedReqs

\* The sink takes every append.
Next ==
    \/ \E i \in Req, r \in Inbound : healthHandler(i, r)
    \/ \E i \in Req, r \in Inbound : proxyRequestBegin(i, r)
    \/ \E i \in Req, reply \in UpstreamReplies : UpstreamAnswers(i, reply, TRUE)
    \/ \E i \in Req, m \in TransportErrors : UpstreamFails(i, m, TRUE)
    \/ \E i \in Req : resFinish(i)

Spec == Init /\ [][Next]_vars

\* The sink may refuse an append (disk full, file removed).
AppendRefused ==
    \/ \E i \in Req, reply \in UpstreamReplies : UpstreamAnswers(i, reply, FALSE)
    \/ \E i \in Req, m \in TransportErrors : UpstreamFails(i, m, FALSE)

FaultNext == Next \/ AppendRefused

FaultSpec == Init /\ [][FaultNext]_vars

\* The upstream call of request i ends, one way or the other.
UpstreamDone(i) ==
    \/ \E reply \in UpstreamReplies, ok \in BOOLEAN : UpstreamAnswers(i, reply, ok)
    \/ \E m \in TransportErrors, ok \in BOOLEAN : UpstreamFails(i, m, ok)

\* Every upstream call returns or fails: the 300000 ms timeout sees to it.
LiveSpec ==
    /\ FaultSpec
    /\ \A i \in Req : WF_vars(UpstreamDone(i))

-----------------------------------------------------------------------------
(* The program with a clock that advances between the runs of its code.   *)

MaxTime == 2

\* A millisecond passes: Date.now() gives the next value.
Tick ==
    /\ now < MaxTime
    /\ now' = now + 1
    /\ UNCHANGED <<concurrentRequests, req, pc, logData, upstream, clientResp,
                   sends, rejected, timers, logFile, loggers, events, extraction>>

TimedNext == Next \/ Tick

TimedSpec == Init /\ [][TimedNext]_vars

-----------------------------------------------------------------------------
(* The metric extractors by themselves, applied to request bodies and      *)
(* response bodies that have or lack the fields they read.                 *)

\* Request bodies: absent, without a model, with a model, with model "".
ExtractBodies ==
    { Undefined, EmptyBody,
      [EmptyBody EXCEPT !.model = Str("llama2")],
      [EmptyBody EXCEPT !.model = Str("")] }

\* A token count of a response: absent, 0, positive.
TokenCounts == {Undefined, Num(0), Num(3)}

\* Response bodies: absent, or an object with any of the fields.
ExtractResponses ==
    {Undefined} \cup
    { [EmptyData EXCEPT !.model = m, !.message_model = mm,
                        !.prompt_eval_count = pe, !.usage_prompt_tokens = up,
                        !.eval_count = ev, !.usage_completion_tokens = uc] :
        m \in {Undefined, Str("mistral")}, mm \in {Undefined, Str("phi")},
        pe \in TokenCounts, up \in TokenCounts,
        ev \in TokenCounts, uc \in TokenCounts }

\* The extractors are about to be called with a body and a response.
ExtractInit ==
    /\ concurrentRequests = 0
    /\ req = [i \in Req |-> NoReq]
    /\ pc = [i \in Req |-> "new"]
    /\ logData = [i \in Req |-> NoLogData]
    /\ upstream = [i \in Req |-> NoOutcome]
    /\ clientResp = [i \in Req |-> NoResp]
    /\ sends = [i \in Req |-> 0]
    /\ rejected = [i \in Req |-> FALSE]
    /\ timers = [i \in Req |-> NoTimers]
    /\ logFile = <<Header>>
    /\ now = 0
    /\ loggers = 1
    /\ events = [i \in Req |-> <<>>]
    /\ extraction \in { [NoExtraction EXCEPT !.body = b, !.data = d] :
                          b \in ExtractBodies, d \in ExtractResponses }

\* extractModel, extractInputTokens and extractOutputTokens are called.
Extract ==
    /\ ~extraction.done
    /\ extraction' =
          [extraction EXCEPT
              !.done = TRUE,
              !.model = extractModel(extraction.body, extraction.data),
              !.input_tokens = extractInputTokens(extraction.data),
              !.output_tokens = extractOutputTokens(extraction.data)]
    /\ UNCHANGED <<concurrentRequests, req, pc, logData, upstream, clientResp,
                   sends, rejected, timers, logFile, now, loggers, events>>

ExtractNext == Extract

ExtractSpec == ExtractInit /\ [][ExtractNext]_vars

-----------------------------------------------------------------------------
(* extractModelParameters by itself, applied to request bodies that have   *)
(* or lack the whitelisted keys, with values that are null, 0 or positive. *)

\* Request bodies: absent, or an object with any of the whitelisted keys and
\* with or without the keys that are not whitelisted.
ParamBodies ==
    {Undefined, Null} \cup
    { [EmptyBody EXCEPT !.model = m, !.prompt = m, !.stream = st,
                        !.temperature = te, !.top_p = tp, !.top_k = tk,
                        !.max_tokens = mt, !.num_predict = np,
                        !.repeat_penalty = rp] :
        m \in {Undefined, Str("llama2")}, st \in {Undefined, Bool(TRUE)},
        te \in {Undefined, Num(0), Num(7)},
        tk \in {Undefined, Null, Num(0), Num(40)},
        tp \in {Undefined, Num(1)}, mt \in {Undefined, Num(1)},
        np \in {Undefined, Num(1)}, rp \in {Undefined, Num(1)} }

\* extractModelParameters is about to be called with a body.
ParamInit ==
    /\ concurrentRequests = 0
    /\ req = [i \in Req |-> NoReq]
    /\ pc = [i \in Req |-> "new"]
    /\ logData = [i \in Req |-> NoLogData]
    /\ upstream = [i \in Req |-> NoOutcome]
    /\ clientResp = [i \in Req |-> NoResp]
    /\ sends = [i \in Req |-> 0]
    /\ rejected = [i \in Req |-> FALSE]
    /\ timers = [i \in Req |-> NoTimers]
    /\ logFile = <<Header>>
    /\ now = 0
    /\ loggers = 1
    /\ events = [i \in Req |-> <<>>]
    /\ extraction \in { [NoExtraction EXCEPT !.body = b] : b \in ParamBodies }

\* extractModelParameters is called.
ExtractParameters ==
    /\ ~extraction.done
    /\ extraction' =
          [extraction EXCEPT
              !.done = TRUE,
              !.model_parameters = extractModelParameters(extraction.body)]
    /\ UNCHANGED <<concurrentRequests, req, pc, logData, upstream, clientResp,
                   sends, rejected, timers, logFile, now, loggers, events>>

ParamNext == ExtractParameters

ParamSpec == ParamInit /\ [][ParamNext]_vars

-----------------------------------------------------------------------------
(* The sink by itself: CSVLogger objects constructed over one file, and    *)
(* their log() calls.  An absent file is the empty sequence of lines.      *)

MaxLoggers == 3
MaxRows == 3

\* initializeLogFile, had it written the header whatever the file held.
initializeLogFile_Always(file) == <<Header>>

\* initializeLogFile(): fs.writeFileSync of the header line when
\* fs.existsSync(logFile) is false, nothing otherwise.
initializeLogFile(file) == IF file = <<>> THEN <<Header>> ELSE file

\* Arguments of log(): the logData of a request at its start, after a
\* response and after a transport failure.
SinkData ==
    { InitialLogData(1, TagsReq, 1),
      SuccessLogData(InitialLogData(1, GenerateReq, 1), GenerateReq, NoTimers,
                     [status |-> 200, data |-> GenerateReply], 0),
      CatchLogData(InitialLogData(2, GenerateReq, 2), NoTimers,
                   AxiosFail("connect ECONNREFUSED"), 0) }

\* No logger has been constructed and the file does not exist.
SinkInit ==
    /\ concurrentRequests = 0
    /\ req = [i \in Req |-> NoReq]
    /\ pc = [i \in Req |-> "new"]
    /\ logData = [i \in Req |-> NoLogData]
    /\ upstream = [i \in Req |-> NoOutcome]
    /\ clientResp = [i \in Req |-> NoResp]
    /\ sends = [i \in Req |-> 0]
    /\ rejected = [i \in Req |-> FALSE]
    /\ timers = [i \in Req |-> NoTimers]
    /\ logFile = <<>>
    /\ now = 0
    /\ loggers = 0
    /\ events = [i \in Req |-> <<>>]
    /\ extraction = NoExtraction

\* new CSVLogger(): the constructor calls initializeLogFile().
NewCSVLogger ==
    /\ loggers < MaxLoggers
    /\ loggers' = loggers + 1
    /\ logFile' = initializeLogFile(logFile)
    /\ UNCHANGED <<concurrentRequests, req, pc, logData, upstream, clientResp,
                   sends, rejected, timers, now, events, extraction>>

\* log(data) of a constructed logger: fs.appendFileSync of one line.
LogCall(data) ==
    /\ loggers >= 1
    /\ Len(logFile) <= MaxRows
    /\ logFile' = appendFileSync(logFile, log(data, now))
    /\ UNCHANGED <<concurrentRequests, req, pc, logData, upstream, clientResp,
                   sends, rejected, timers, now, loggers, events, extraction>>

SinkNext == NewCSVLogger \/ \E data \in SinkData : LogCall(data)

SinkSpec == SinkInit /\ [][SinkNext]_vars

-----------------------------------------------------------------------------
(* Vocabulary of the properties.                                           *)

Entered(i) == pc[i] # "new"

Forwarded(i) == Entered(i) /\ Route(req[i]) = "proxy"

IsHealth(i) == Entered(i) /\ Route(req[i]) = "health"

\* proxyRequest has run to its end for request i.
Completed(i) == Forwarded(i) /\ pc[i] \in {"sent", "finished"}

\* Forwarded requests that entered and whose response has not finished.
InFlightForwarded == {j \in Req : Forwarded(j) /\ pc[j] \in {"awaiting", "sent"}}

\* The data rows of the sink that carry request i's id.
RowsOf(i) == {k \in 2..Len(logFile) : logFile[k].request_id = Uuid(i)}

-----------------------------------------------------------------------------
(* C1: one audit row per forwarded request.                                *)

\* C1: with a sink that takes every append, a forwarded request has no row
\* before proxyRequest has completed for it and exactly one row from then on,
\* whatever the upstream did (answered 2xx, answered 4xx/5xx, failed) and in
\* whatever order the requests complete; no other line is ever written.  So
\* once all N forwarded requests have completed the sink holds exactly N data
\* rows.
C1_OneRowPerRequest ==
    /\ \A i \in Req : Cardinality(RowsOf(i)) = IF Completed(i) THEN 1 ELSE 0
    /\ \A k \in 2..Len(logFile) : \E i \in Req : k \in RowsOf(i)
    /\ (\A i \in Req : Forwarded(i) => Completed(i))
          => Len(logFile) - 1 = Cardinality({i \in Req : Forwarded(i)})

\* Two forwarded requests, one answered and one failed, completed in the
\* reverse of their order of arrival: each has its row.
C1_Witness ==
    /\ \A i \in Req : Completed(i)
    /\ \E i, j \in Req : /\ i < j
                         /\ upstream[i].kind = "reply" /\ upstream[i].status = 404
                         /\ upstream[j].kind = "failure"
                         /\ logFile[2].request_id = Uuid(j)
    /\ Len(logFile) - 1 = NumReq

-----------------------------------------------------------------------------
(* C2: one response per forwarded request.                                 *)

\* C2: when every upstream call returns or fails, every request that enters
\* proxyRequest is eventually answered, and no request is ever answered
\* twice: once proxyRequest has completed the client has exactly one
\* response, relayed or synthesized, also when the append was refused.
C2_ExactlyOneResponse ==
    /\ [](\A i \in Req : /\ sends[i] <= 1
                         /\ Completed(i) => (sends[i] = 1 /\ clientResp[i] # NoResp))
    /\ \A i \in Req : (pc[i] = "awaiting") ~> (sends[i] = 1)

\* A relayed answer and a synthesized one, each sent once.
C2_Witness ==
    \E i, j \in Req : /\ upstream[i].kind = "reply" /\ sends[i] = 1
                      /\ clientResp[i].status = upstream[i].status
                      /\ upstream[j].kind = "failure" /\ sends[j] = 1
                      /\ clientResp[j].status = 500

-----------------------------------------------------------------------------
(* C3: the in-flight counter drains.                                       *)

\* C3: whenever every request that entered the server (forwarded or health)
\* has finished, concurrentRequests is 0, whatever the order of entries,
\* upstream completions and 'finish' events was.
C3_CounterReturnsToZero ==
    (\A i \in Req : Entered(i) => pc[i] = "finished") => concurrentRequests = 0

\* All requests have finished, and a row shows two of them were in flight
\* together.
C3_Witness ==
    /\ \A i \in Req : pc[i] = "finished"
    /\ \E k \in 2..Len(logFile) : logFile[k].concurrent_requests.n >= 2
    /\ concurrentRequests = 0

-----------------------------------------------------------------------------
(* C4: upstream statuses are relayed, 4xx and 5xx included.                *)

\* C4: whatever status the upstream answers with, the client gets that status
\* and that body, and the request's row has that status as http_status and an
\* empty error_message.
C4_UpstreamStatusRelayed ==
    \A i \in Req :
        upstream[i].kind = "reply" =>
            /\ clientResp[i] = [status |-> upstream[i].status, body |-> upstream[i].data]
            /\ RowsOf(i) # {}
            /\ \A k \in RowsOf(i) :
                  /\ logFile[k].http_status = JsString(Num(upstream[i].status))
                  /\ logFile[k].error_message = Str("")

\* A 404 and a 500 of the upstream, both relayed.
C4_Witness ==
    \E i, j \in Req : /\ upstream[i].kind = "reply" /\ upstream[i].status = 404
                      /\ clientResp[i].body = NotFoundReply
                      /\ upstream[j].kind = "reply" /\ upstream[j].status = 500
                      /\ clientResp[j].status = 500

-----------------------------------------------------------------------------
(* C5: transport failures.                                                 *)

\* C5: when the upstream call fails with no upstream status, the client gets
\* status 500 and a body of exactly error, message and request_id, the
\* request_id being the request's own; the request's row has http_status
\* 500, a non-empty error_message and response_size_bytes 0.
C5_TransportFailure ==
    \A i \in Req :
        upstream[i].kind = "failure" =>
            /\ clientResp[i].status = 500
            /\ DOMAIN clientResp[i].body = {"error", "message", "request_id"}
            /\ clientResp[i].body.request_id = Uuid(i)
            /\ clientResp[i].body.message = Str(upstream[i].message)
            /\ RowsOf(i) # {}
            /\ \A k \in RowsOf(i) :
                  /\ logFile[k].http_status = JsString(Num(500))
                  /\ logFile[k].error_message = Str(upstream[i].message)
                  /\ logFile[k].error_message # Str("")
                  /\ logFile[k].response_size_bytes = JsString(Num(0))

\* The second request failed at transport level after the first was relayed.
C5_Witness ==
    \E i, j \in Req : /\ i < j
                      /\ upstream[i].kind = "reply"
                      /\ upstream[j].kind = "failure"
                      /\ clientResp[j].body.request_id = Uuid(j)
                      /\ RowsOf(j) # {}

-----------------------------------------------------------------------------
(* C6: a refused append and the client.                                    *)

\* A response body without the identifier of its request.
WithoutRequestId(body) ==
    IF "request_id" \in DOMAIN body THEN [body EXCEPT !.request_id = Undefined] ELSE body

\* C6: two forwarded requests that are the same request and met the same
\* upstream outcome got the same status and the same body (up to the
\* request's own identifier), whether or not CSVLogger.log threw for either.
C6_AppendFailureInvisible ==
    \A i, j \in Req :
        (Completed(i) /\ Completed(j) /\ req[i] = req[j] /\ upstream[i] = upstream[j])
            => /\ clientResp[i].status = clientResp[j].status
               /\ clientResp[i] # NoResp
               /\ WithoutRequestId(clientResp[i].body) = WithoutRequestId(clientResp[j].body)

\* The same request with the same outcome twice: one append went through, the
\* other threw.
C6_Witness ==
    \E i, j \in Req : /\ Completed(i) /\ Completed(j)
                      /\ req[i] = req[j] /\ upstream[i] = upstream[j]
                      /\ rejected[i] /\ ~rejected[j]
                      /\ RowsOf(i) = {} /\ RowsOf(j) # {}

-----------------------------------------------------------------------------
(* C7: failures that leave proxyRequest.                                   *)

\* C7: proxyRequest never ends in a rejected promise, whatever failed: the
\* upstream call or the audit append.
C7_NoFailureEscapes == \A i \in Req : ~rejected[i]

-----------------------------------------------------------------------------
(* C8, C9: GET /health and the counter.                                    *)

\* The step in which request i arrives as a GET /health and is answered.
HealthStep(i) == pc[i] = "new" /\ pc'[i] = "sent" /\ Route(req'[i]) = "health"

\* C8: GET /health is answered with status 200, and the concurrent_requests
\* it reports is at least the number of forwarded requests in flight at that
\* moment.
C8_HealthReportsInFlight ==
    [][\A i \in Req :
          HealthStep(i) =>
              /\ clientResp'[i].status = 200
              /\ clientResp'[i].body.concurrent_requests.n >= Cardinality(InFlightForwarded)]_vars

\* A GET /health answered while an earlier forwarded request is in flight.
C8_Witness ==
    \E i, j \in Req : /\ j < i
                      /\ Forwarded(j) /\ pc[j] \in {"awaiting", "sent"}
                      /\ IsHealth(i) /\ pc[i] = "sent"
                      /\ clientResp[i].status = 200
                      /\ clientResp[i].body.concurrent_requests.n >= 1

\* C9: serving GET /health leaves the counter as it was, and a GET /health
\* answered when no forwarded request is in flight reports 0.
C9_HealthOnlyReads ==
    [][\A i \in Req :
          HealthStep(i) =>
              /\ concurrentRequests' = concurrentRequests
              /\ InFlightForwarded = {} => clientResp'[i].body.concurrent_requests.n = 0]_vars

-----------------------------------------------------------------------------
(* C10: token totals.                                                      *)

\* C10: in every data row of the sink, written after a response or after a
\* failure, total_tokens is the sum of input_tokens and output_tokens.
C10_TotalIsSum ==
    \A k \in 2..Len(logFile) :
        /\ logFile[k].total_tokens = JsString(Num(logFile[k].total_tokens.n))
        /\ logFile[k].total_tokens.n = logFile[k].input_tokens.n + logFile[k].output_tokens.n

\* A row of a response with tokens and a row of a failure.
C10_Witness ==
    \E k, l \in 2..Len(logFile) :
        /\ logFile[k].input_tokens.n = 3 /\ logFile[k].output_tokens.n = 2
        /\ logFile[k].total_tokens.n = 5
        /\ logFile[l].error_message # Str("") /\ logFile[l].total_tokens.n = 0

-----------------------------------------------------------------------------
(* C11: the model_parameters field read back.                              *)

\* What a CSV reader makes of a quoted field: doubled quotes are halved.
CsvUnquote(field) ==
    IF ContainsQuote(field) THEN [field EXCEPT !.q = @ \div 2] ELSE field

\* JSON.parse of a text: the value it was serialised from when its quotes
\* stand single, a syntax error otherwise.
JsonParse(text) ==
    IF ContainsQuote(text) /\ text.q = 1 THEN text.json ELSE "SyntaxError"

\* The request whose id a row carries.
RequestOfRow(k) == CHOOSE i \in Req : logFile[k].request_id = Uuid(i)

\* C11: in every data row whose request has a non-empty parameter mapping, the
\* model_parameters field has its quote characters doubled exactly once, and
\* unquoting the field and parsing it as JSON yields the request's mapping.
C11_ParametersRoundTrip ==
    \A k \in 2..Len(logFile) :
        logFile[k].model_parameters # Str("") =>
            /\ logFile[k].model_parameters.q = 2
            /\ JsonParse(CsvUnquote(logFile[k].model_parameters))
                   = extractModelParameters(req[RequestOfRow(k)].body)

-----------------------------------------------------------------------------
(* C12: the sink is append-only under one header.                          *)

\* C12: after any constructions of loggers and log() calls, the header is the
\* first line of the file and occurs once in it; constructing a logger over an
\* existing file leaves the file as it is; and every step, a log() call
\* included, keeps the previous content as a prefix of the new content.
C12_AppendOnlySingleHeader ==
    /\ [](logFile # <<>> =>
            /\ logFile[1] = Header
            /\ Cardinality({k \in 1..Len(logFile) : logFile[k] = Header}) = 1)
    /\ [][(loggers' = loggers + 1 /\ logFile # <<>>) => logFile' = logFile]_vars
    /\ [][/\ Len(logFile') >= Len(logFile)
          /\ SubSeq(logFile', 1, Len(logFile)) = logFile]_vars

\* A second logger has been constructed over the file and rows were logged.
C12_Witness ==
    /\ loggers >= 2
    /\ Len(logFile) >= 3
    /\ logFile[1] = Header

-----------------------------------------------------------------------------
(* C13: the counter value in the row.                                      *)

\* proxyRequest resumes for request i after its upstream call settled, and
\* appends the row.
FinalizeStep(i) ==
    /\ pc[i] = "awaiting"
    /\ pc'[i] = "sent"
    /\ Len(logFile') = Len(logFile) + 1

\* C13: the concurrent_requests field of the row a request appends is the
\* value the in-flight counter has when the row is assembled, after the
\* upstream call settled.
C13_ConcurrencyAtFinalization ==
    [][\A i \in Req :
          FinalizeStep(i) =>
              logFile'[Len(logFile')].concurrent_requests
                  = JsString(Num(concurrentRequests))]_vars

-----------------------------------------------------------------------------
(* C14: the request-derived metrics after a transport failure.             *)

\* The fields log() writes for a request body whose metrics were extracted.
RequestMetricsRow(body) ==
    log([NoLogData EXCEPT
            !.model = extractModel(body, EmptyData),
            !.model_parameters = extractModelParameters(body),
            !.stream_mode = JsOr(body.stream, Bool(FALSE))], 0)

\* C14: the row of a request whose upstream call failed at transport level
\* carries the model of the request body ("unknown" when it has none), the
\* whitelisted parameters of the body and the body's stream flag.
C14_MetricsOnFailure ==
    \A i \in Req :
        upstream[i].kind = "failure" =>
            \A k \in RowsOf(i) :
                /\ logFile[k].model = RequestMetricsRow(req[i].body).model
                /\ logFile[k].model_parameters
                       = RequestMetricsRow(req[i].body).model_parameters
                /\ logFile[k].stream_mode = RequestMetricsRow(req[i].body).stream_mode

-----------------------------------------------------------------------------
(* C15: response, row, decrement.                                          *)

IsPrefix(a, b) == Len(a) <= Len(b) /\ a = SubSeq(b, 1, Len(a))

-----------------------------------------------------------------------------
(* C16: whole rows.                                                        *)

\* C16: under every interleaving the file is the header followed by whole
\* rows: each data line is the line log() makes of the logData of one
\* request, with a field for each of the 23 columns of the header and every
\* field a text written between double quotes.
C16_WholeRows ==
    /\ logFile[1] = Header
    /\ Len(Columns) = 23
    /\ \A k \in 2..Len(logFile) :
          /\ DOMAIN logFile[k] = DOMAIN Header
          /\ Cardinality(DOMAIN logFile[k]) = 23
          /\ \A c \in DOMAIN logFile[k] : logFile[k][c].t = "string"
          /\ \E i \in Req : /\ Completed(i)
                            /\ logFile[k] = log(logData[i], now)

\* Two requests were in flight together and both rows are in the file, the
\* later arrival's first.
C16_Witness ==
    /\ Len(logFile) = 3
    /\ logFile[2].request_id = Uuid(2)
    /\ logFile[3].request_id = Uuid(1)
    /\ logFile[2].concurrent_requests.n = 2

-----------------------------------------------------------------------------
(* C17: the order of the rows.                                             *)

\* C17: rows are in the order in which the upstream calls completed: when
\* the upstream call of a request returns or fails, the request's row goes
\* after every row that is in the file, which stay where they are, so the row
\* of a request whose call completed earlier precedes it whatever the order
\* of arrival.
C17_CompletionOrder ==
    [][\A i \in Req :
          FinalizeStep(i) =>
              /\ SubSeq(logFile', 1, Len(logFile)) = logFile
              /\ logFile'[Len(logFile')].request_id = Uuid(i)]_vars

\* The request that arrived second completed first: its row precedes the
\* row of the request that arrived first.
C17_Witness ==
    \E k, l \in 2..Len(logFile) :
        /\ k < l
        /\ logFile[k].request_id = Uuid(2)
        /\ logFile[l].request_id = Uuid(1)
        /\ logFile[l].concurrent_requests.n = 1
        /\ pc[1] = "finished" /\ pc[2] = "finished"

-----------------------------------------------------------------------------
(* C18: the times in the row.                                              *)

\* C18: on every path, in the row of a request processing_time_ms is the
\* time from the invocation of the upstream call to its return or failure
\* (the moment the row is written), and queue_time_ms is the time from
\* queueStart to processingStart.
C18_TimingOnEveryPath ==
    \A i \in Req :
        \A k \in RowsOf(i) :
            /\ logFile[k].processing_time_ms
                   = JsString(Num(logFile[k].timestamp.n - timers[i].processingStartTime))
            /\ logFile[k].queue_time_ms
                   = JsString(Num(timers[i].processingStartTime - timers[i].queueStartTime))

-----------------------------------------------------------------------------
(* C19, C20: the fallback chains of the extractors.                        *)

\* A field is present when it has a value: not undefined, not null.
Present(v) == v # Undefined /\ v # Null

\* The first present value of a, b, c in this order, or the default.
FirstPresent(a, b, c, default) ==
    IF Present(a) THEN a ELSE IF Present(b) THEN b ELSE IF Present(c) THEN c
    ELSE default

\* C19: input_tokens is the response's prompt_eval_count whenever that field
\* is present, 0 included, else usage.prompt_tokens when present, else 0;
\* output_tokens likewise from eval_count and usage.completion_tokens.
C19_FirstPresentTokens ==
    extraction.done =>
        /\ extraction.input_tokens
               = FirstPresent(Opt(extraction.data, "prompt_eval_count"),
                              Opt(extraction.data, "usage_prompt_tokens"),
                              Undefined, Num(0))
        /\ extraction.output_tokens
               = FirstPresent(Opt(extraction.data, "eval_count"),
                              Opt(extraction.data, "usage_completion_tokens"),
                              Undefined, Num(0))

\* C20: extractModel returns a value for every body and response, absent
\* ones included: the request body's model field if present, else the
\* response's model, else the response's message.model, else "unknown".
C20_ModelPriority ==
    extraction.done =>
        /\ extraction.model # Undefined
        /\ extraction.model
               = FirstPresent(Opt(extraction.body, "model"),
                              Opt(extraction.data, "model"),
                              Opt(extraction.data, "message_model"),
                              Str("unknown"))

-----------------------------------------------------------------------------
(* C21: the whitelisted parameters.                                        *)

\* The whitelisted keys a body has (none when there is no body).
KeysPresent(body) ==
    IF IsScalar(body) THEN {} ELSE {k \in ParamKeys : body[k] # Undefined}

\* C21: extractModelParameters returns null, never an empty mapping, when
\* there is no body or the body has none of the whitelisted keys; otherwise a
\* mapping whose keys are exactly the whitelisted keys the body has, each with
\* the body's value, and no key that is not whitelisted.
C21_WhitelistedParameters ==
    extraction.done =>
        IF KeysPresent(extraction.body) = {}
        THEN extraction.model_parameters = Null
        ELSE /\ ~IsScalar(extraction.model_parameters)
             /\ DOMAIN extraction.model_parameters = KeysPresent(extraction.body)
             /\ DOMAIN extraction.model_parameters \subseteq ParamKeys
             /\ \A k \in DOMAIN extraction.model_parameters :
                    extraction.model_parameters[k] = extraction.body[k]

\* A body with a model, a top_k of 0 and a temperature: the mapping has the
\* two parameters and not the model.
C21_Witness ==
    /\ extraction.done
    /\ ~IsScalar(extraction.body)
    /\ extraction.body.model = Str("llama2")
    /\ extraction.body.top_k = Num(0)
    /\ DOMAIN extraction.model_parameters = {"top_k", "temperature"}
    /\ extraction.model_parameters.top_k = Num(0)

-----------------------------------------------------------------------------
(* C22: the in-flight counter counts.                                      *)

\* The requests that passed the tracking middleware and whose response has
\* not finished.
InFlight == {i \in Req : Entered(i) /\ pc[i] # "finished"}

\* C22: the counter is never negative and is the number of requests that
\* passed the tracking middleware and whose response has not finished; a step
\* adds 1 to it exactly when a request passes the middleware and takes 1 from
\* it exactly when a response finishes, once each for a request, whatever the
\* interleaving of the requests.
C22_CounterCounts ==
    /\ [](concurrentRequests >= 0 /\ concurrentRequests = Cardinality(InFlight))
    /\ [][\A i \in Req :
            /\ (~Entered(i) /\ pc'[i] # "new")
                   => concurrentRequests' = concurrentRequests + 1
            /\ (pc[i] # "finished" /\ pc'[i] = "finished")
                   => concurrentRequests' = concurrentRequests - 1
            /\ pc[i] = "finished" => pc'[i] = "finished"
            /\ Entered(i) => pc'[i] # "new"]_vars
    /\ [][concurrentRequests' # concurrentRequests =>
            \E i \in Req : \/ ~Entered(i) /\ pc'[i] # "new"
                           \/ pc[i] # "finished" /\ pc'[i] = "finished"]_vars

\* Two requests are in flight together, one awaiting the upstream and one
\* with its response sent and not finished.
C22_Witness ==
    /\ concurrentRequests = 2
    /\ \E i, j \in Req : pc[i] = "awaiting" /\ pc[j] = "sent"

====
